---- MODULE Spec2Model ----
(***************************************************************************)
(* Lead-to-location routing of ProductionLeadRouter                        *)
(* (src/production-router.js, lines 1-518).                                *)
(*                                                                         *)
(* One routeLead call is an async function: it runs synchronously up to    *)
(* each await, and concurrent calls interleave at the awaits.  A call is   *)
(* modelled as a process whose steps are the stretches between awaits.     *)
(*                                                                         *)
(* Numbers.  Lead scores are kept in tenths inside calculateLeadScore so   *)
(* that the source multipliers (0.9 .. 1.3) stay integers.  Coordinates    *)
(* are points of one meridian, measured in miles along it: for two points  *)
(* of equal longitude the haversine formula reduces to R * |dLat|, i.e.    *)
(* to the absolute difference of the two positions.                        *)
(***************************************************************************)
EXTENDS Integers, Sequences, FiniteSets, TLC

(***************************************************************************)
(* Bounds of the model                                                     *)
(***************************************************************************)
\* number of routeLead calls that may be in flight together (SpecConc)
NumCalls == 2

\* the clock of SpecCache: the milliseconds of one tick, and the number of
\* ticks it runs for
TickMs == 150000
MaxTicks == 5

\* number of loadData calls the dashboard makes (SpecDash)
MaxLoads == 4

Procs == 1..NumCalls

(***************************************************************************)
(* PRODUCTION_CONFIG                                                       *)
(***************************************************************************)
ZIP_RADIUS_MILES == 25
HIGH_SCORE_THRESHOLD == 80
MAX_DAILY_LEADS_PER_LOCATION == 50
\* "Unknown distance" returned by calculateRealDistance
UNKNOWN_DISTANCE == 999
\* the time to live of a cached distance, in milliseconds
CACHE_TTL == 300000

\* The configurations a router can be constructed with: whether the
\* JSONBin key and the webhook URL are set, and the fallback flag.
Configs ==
  [JSONBIN : BOOLEAN, WEBHOOK_URL : BOOLEAN, FALLBACK_ENABLED : BOOLEAN]

(***************************************************************************)
(* Postal codes are sequences of characters.                               *)
(***************************************************************************)
AsciiDigits == {"0", "1", "2", "3", "4", "5", "6", "7", "8", "9"}

Z90210 == <<"9", "0", "2", "1", "0">>
Z90025 == <<"9", "0", "0", "2", "5">>
Z10001 == <<"1", "0", "0", "0", "1">>
Z99999 == <<"9", "9", "9", "9", "9">>
ZShort == <<"9", "0", "2", "1">>
ZLong == <<"9", "0", "2", "1", "0", "0">>
ZLetter == <<"9", "0", "2", "1", "a">>
\* the last character is ARABIC-INDIC DIGIT ZERO, a digit that is not ASCII
ZArabic == <<"9", "0", "2", "1", "U+0660">>
ZEmpty == <<>>

\* MatchesFiveDigits for a pattern that lost its end anchor, /^\d{5}/
MatchesFiveDigitsUnanchored(zip) ==
  /\ Len(zip) >= 5
  /\ \A i \in 1..5 : zip[i] \in AsciiDigits

\* /^\d{5}$/.test(zip): exactly five characters, each of [0-9]
MatchesFiveDigits(zip) ==
  /\ Len(zip) = 5
  /\ \A i \in 1..Len(zip) : zip[i] \in AsciiDigits

(***************************************************************************)
(* Leads.  isNull stands for a null/undefined lead; hasZip = FALSE for a   *)
(* lead without a zip property; frozen for an object whose properties      *)
(* cannot be assigned (the assignment throws in class code, which is       *)
(* strict).                                                                *)
(***************************************************************************)
MkLead(isNull, hasId, hasZip, zip, leadScore, source, complete, frozen) ==
  [isNull |-> isNull, hasId |-> hasId, hasZip |-> hasZip, zip |-> zip,
   leadScore |-> leadScore, source |-> source,
   phone |-> complete, email |-> complete, firstName |-> complete,
   frozen |-> frozen]

NullLead == MkLead(TRUE, FALSE, FALSE, ZEmpty, 0, "", FALSE, FALSE)
\* the lead of demonstrateProductionRouter
DemoLead == MkLead(FALSE, TRUE, TRUE, Z90210, 85, "facebook", TRUE, FALSE)
StandardLead == MkLead(FALSE, TRUE, TRUE, Z90210, 50, "website", FALSE, FALSE)
WalkInLead == MkLead(FALSE, TRUE, TRUE, Z90210, 80, "walk-in", FALSE, FALSE)
FarLead == MkLead(FALSE, TRUE, TRUE, Z99999, 85, "website", FALSE, FALSE)

ValidLeads == {DemoLead, StandardLead, WalkInLead, FarLead}

Leads ==
  ValidLeads \cup
  { NullLead,
    MkLead(FALSE, FALSE, TRUE, Z90210, 85, "facebook", TRUE, FALSE),
    MkLead(FALSE, TRUE, FALSE, ZEmpty, 80, "walk-in", FALSE, FALSE),
    MkLead(FALSE, TRUE, TRUE, ZEmpty, 85, "facebook", TRUE, FALSE),
    MkLead(FALSE, TRUE, TRUE, ZShort, 85, "facebook", TRUE, FALSE),
    MkLead(FALSE, TRUE, TRUE, ZLong, 85, "facebook", TRUE, FALSE),
    MkLead(FALSE, TRUE, TRUE, ZLetter, 85, "facebook", TRUE, FALSE),
    MkLead(FALSE, TRUE, TRUE, ZArabic, 85, "facebook", TRUE, FALSE),
    MkLead(FALSE, TRUE, TRUE, Z90210, 85, "facebook", TRUE, TRUE) }

\* the hours new Date().getHours() is read at: around both ends of 9..17
Hours == {8, 9, 17, 18}

\* validateLead(lead): lead && lead.id && lead.zip && /^\d{5}$/.test(lead.zip)
validateLead(lead) ==
  /\ ~lead.isNull
  /\ lead.hasId
  /\ lead.hasZip
  /\ lead.zip # ZEmpty
  /\ MatchesFiveDigits(lead.zip)

\* sourceBonus[lead.source] || 1.0, in tenths
sourceBonus(source) ==
  CASE source = "facebook" -> 12
    [] source = "google" -> 11
    [] source = "referral" -> 13
    [] source = "website" -> 10
    [] source = "walk-in" -> 9
    [] OTHER -> 10

\* Math.round(x) for x = tenths / 10: the nearest integer, halves upwards
MathRound(tenths) == (tenths + 5) \div 10

Min(a, b) == IF a <= b THEN a ELSE b

\* calculateLeadScore(lead), with the hour of the wall clock it reads
calculateLeadScore(lead, hour) ==
  LET base == IF lead.leadScore # 0 THEN lead.leadScore ELSE 50
      scaled == base * sourceBonus(lead.source)
      profile == IF lead.phone /\ lead.email /\ lead.firstName
                 THEN 100 ELSE 0
      time == IF hour >= 9 /\ hour <= 17 THEN 50 ELSE 0
  IN  Min(100, MathRound(scaled + profile + time))

(***************************************************************************)
(* Locations and location lists                                            *)
(***************************************************************************)
LocIds == {"loc_001", "loc_002", "loc_003"}

MkLocation(id, zipCode, priority, status) ==
  [isNull |-> FALSE, id |-> id, zipCode |-> zipCode,
   priority |-> priority, status |-> status]

\* a null entry of the locations array
NullLocation ==
  [isNull |-> TRUE, id |-> "", zipCode |-> ZEmpty,
   priority |-> "", status |-> ""]

\* the two locations of demonstrateProductionRouter, and variants
LocA == MkLocation("loc_001", Z90210, "high-traffic", "active")
LocB == MkLocation("loc_002", Z90025, "low-traffic", "active")
LocAMaint == MkLocation("loc_001", Z90210, "high-traffic", "maintenance")
LocBHigh == MkLocation("loc_002", Z90025, "high-traffic", "active")
\* a second location in the lead's own postal code
LocB0 == MkLocation("loc_002", Z90210, "low-traffic", "active")
LocFar == MkLocation("loc_003", Z10001, "high-traffic", "active")

\* an absent locations argument (undefined)
NoList == [absent |-> TRUE, items |-> <<>>]
List(items) == [absent |-> FALSE, items |-> items]

LocationLists ==
  { NoList, List(<<>>), List(<<LocA>>), List(<<LocFar>>),
    List(<<LocA, LocB>>), List(<<LocB, LocA>>), List(<<LocAMaint, LocB>>),
    List(<<LocA, LocBHigh>>), List(<<LocB0, LocA>>),
    List(<<LocA, LocFar>>), List(<<LocA, NullLocation>>) }

\* the inputs of the concurrent specification
ConcLeads == {DemoLead}
ConcLists == {List(<<LocA>>)}

(***************************************************************************)
(* Geocoding and distance                                                  *)
(***************************************************************************)
NoCoords == [found |-> FALSE, lat |-> 0]

\* The places the zip lookup service knows, as positions on the meridian.
KnownZips == {Z90210, Z90025, Z10001}

ZipPlace(zip) ==
  CASE zip = Z90210 -> 0
    [] zip = Z90025 -> 4
    [] zip = Z10001 -> 2450
    [] OTHER -> 0

\* What one fetch of the zip lookup can come back with: "ok" with a place,
\* "empty" without places, "error" for a thrown fetch, a timeout or a
\* response that is not ok.
GeoAnswers(zip) ==
  IF zip \in KnownZips THEN {"ok", "error"} ELSE {"empty", "error"}

\* getZipCoordinates(zipCode), given the answer of its fetch
getZipCoordinates(zip, answer) ==
  IF answer = "ok" THEN [found |-> TRUE, lat |-> ZipPlace(zip)]
  ELSE NoCoords

Abs(x) == IF x >= 0 THEN x ELSE -x

\* haversineDistance(coords1, coords2) for two points of one meridian
haversineDistance(coords1, coords2) == Abs(coords2.lat - coords1.lat)

\* calculateRealDistance without its test of missing coordinates
calculateRealDistanceNoSentinel(zip1, zip2, answer1, answer2) ==
  haversineDistance(getZipCoordinates(zip1, answer1),
                    getZipCoordinates(zip2, answer2))

\* calculateRealDistance(zip1, zip2), given the answers of its two lookups
calculateRealDistance(zip1, zip2, answer1, answer2) ==
  LET coords1 == getZipCoordinates(zip1, answer1)
      coords2 == getZipCoordinates(zip2, answer2)
  IN  IF ~coords1.found \/ ~coords2.found THEN UNKNOWN_DISTANCE
      ELSE haversineDistance(coords1, coords2)

\* calculateRealDistance with neither the catch of getZipCoordinates nor
\* its own: the exception of a failed lookup leaves it
calculateRealDistanceNoCatch(answer1, answer2) ==
  "error" \in {answer1, answer2}

\* whether calculateRealDistance throws to its caller: the exception of a
\* failed lookup is caught in getZipCoordinates (lines 218-221), and behind
\* it stands the catch of calculateRealDistance (lines 186-189)
calculateRealDistanceThrows(answer1, answer2) ==
  LET thrown == "error" \in {answer1, answer2}
      caught == TRUE
  IN  thrown /\ ~caught

\* `distance_${leadZip}_${location.zipCode}`
CacheKey(leadZip, zipCode) == <<leadZip, zipCode>>

(***************************************************************************)
(* Capacity records                                                        *)
(***************************************************************************)
\* the daily loads a location can stand at: two, one and no remaining slot
Loads ==
  { MAX_DAILY_LEADS_PER_LOCATION - 2, MAX_DAILY_LEADS_PER_LOCATION - 1,
    MAX_DAILY_LEADS_PER_LOCATION }

Capacity(hasCapacity, availableSlots, isOperational) ==
  [read |-> TRUE, hasCapacity |-> hasCapacity,
   availableSlots |-> availableSlots, isOperational |-> isOperational]

\* the capacity of a candidate whose read has not come back yet
Unread ==
  [read |-> FALSE, hasCapacity |-> FALSE,
   availableSlots |-> 0, isOperational |-> FALSE]

\* Math.floor(Math.random() * 20) + 5 ranges over 5..24; its two ends
SimulatedSlots == {5, 24}

\* getSimulatedCapacity(): every record it can return
getSimulatedCapacity ==
  { Capacity(h, n, TRUE) : h \in BOOLEAN, n \in SimulatedSlots }

\* What the fetch of the capacity bin can come back with: "ok" with the
\* stored record, "notok" for a response that is not ok, "error" for a
\* thrown fetch or a timeout.
StoreAnswers == {"ok", "notok", "error"}

(***************************************************************************)
(* Candidates: a location with its distance                                *)
(***************************************************************************)
Candidate(location, distance) ==
  [id |-> location.id, zipCode |-> location.zipCode,
   priority |-> location.priority, status |-> location.status,
   distance |-> distance]

\* s with x put behind every element that is not farther than x
InsertByDistance(x, s) ==
  LET n == Cardinality({ i \in 1..Len(s) : s[i].distance <= x.distance })
  IN  SubSeq(s, 1, n) \o <<x>> \o SubSeq(s, n + 1, Len(s))

\* .sort((a, b) => a.distance - b.distance): ascending, stable
RECURSIVE SortByDistance(_)
SortByDistance(s) ==
  IF s = <<>> THEN <<>>
  ELSE InsertByDistance(s[Len(s)], SortByDistance(SubSeq(s, 1, Len(s) - 1)))

\* WithinRadius for a filter that only drops unknown distances
WithinRadiusKnown(c) == c.distance # UNKNOWN_DISTANCE

\* loc.distance <= this.config.ZIP_RADIUS_MILES
WithinRadius(c) == c.distance <= ZIP_RADIUS_MILES

\* FilterAndSort for a return statement that lost its filter
SortOnly(locationsWithDistance) == SortByDistance(locationsWithDistance)

\* the return statement of getNearestLocationsReal
FilterAndSort(locationsWithDistance) ==
  SortByDistance(SelectSeq(locationsWithDistance, WithinRadius))

(***************************************************************************)
(* Results                                                                 *)
(***************************************************************************)
NoResult ==
  [returned |-> FALSE, success |-> FALSE, code |-> "", locationId |-> "",
   estimatedDistance |-> 0, isHighPriority |-> FALSE, waitlist |-> FALSE]

\* createErrorResponse(code, message)
createErrorResponse(code) ==
  [returned |-> TRUE, success |-> FALSE, code |-> code, locationId |-> "",
   estimatedDistance |-> 0, isHighPriority |-> FALSE, waitlist |-> FALSE]

\* the object returned by routeLead for a selected location; it has no
\* waitlist property
SuccessResponse(candidate, score) ==
  [returned |-> TRUE, success |-> TRUE, code |-> "",
   locationId |-> candidate.id, estimatedDistance |-> candidate.distance,
   isHighPriority |-> (score >= HIGH_SCORE_THRESHOLD), waitlist |-> FALSE]

(***************************************************************************)
(* State                                                                   *)
(***************************************************************************)
VARIABLES
  config,       \* this.config of the router
  load,         \* per location: today's load, as the capacity bins hold it
  operational,  \* per location: isOperational, as the capacity bins hold it
  cache,        \* this.cache: cache key -> distance
  timers,       \* per cache key: the scheduled cache.delete calls
  metrics,      \* this.metrics
  pc,           \* per call: where the call stands
  lead,         \* per call: the lead argument
  locations,    \* per call: the locations argument
  finalScore,   \* per call: lead.finalScore
  task,         \* per call: the distance promises of locations.map
  nearest,      \* per call: nearestLocations
  capacity,     \* per call: the capacity read for each nearest location
  selected,     \* per call: index of selectedLocation in nearest, or 0
  outcome,      \* per call: the outcome handed to logRoutingEvent
  events,       \* per call: the routing events logged
  geoRequests,  \* per call: zip lookups issued
  capRequests,  \* per call: capacity reads issued
  steps,        \* per call: the methods routeLead has called, in order
  result,       \* per call: the value routeLead returned
  now,          \* the clock, in milliseconds
  due,          \* the scheduled cache.delete calls with their due times
  written,      \* per cache key: time and value of its latest cache.set
  apiConfig,        \* dashboard: this.apiConfig
  data,             \* dashboard: this.data, 0 for null, else a data set
  refreshInterval,  \* dashboard: this.refreshInterval
  shown,            \* dashboard: the data set updateUI wrote to the page
  loadCalls,        \* dashboard: the loadData calls made so far
  serial            \* dashboard: the number of data sets produced so far

vars ==
  <<config, load, operational, cache, timers, metrics, pc, lead, locations,
    finalScore, task, nearest, capacity, selected, outcome, events,
    geoRequests, capRequests, steps, result, now, due, written,
    apiConfig, data, refreshInterval, shown, loadCalls, serial>>

\* the clock and what is recorded against it
timed == <<now, due, written>>

\* the dashboard page (FranchiseDashboard)
dash == <<apiConfig, data, refreshInterval, shown, loadCalls, serial>>

\* what no step of the router writes: its configuration, the capacity
\* bins and the dashboard page
shared == <<config, load, operational, dash>>

\* the record the capacity bin of a location holds
StoreRecord(id) ==
  Capacity(load[id] < MAX_DAILY_LEADS_PER_LOCATION,
           MAX_DAILY_LEADS_PER_LOCATION - load[id],
           operational[id])

\* the state of a router right after construction, no call made yet
Idle ==
  /\ cache = <<>>
  /\ timers = <<>>
  /\ metrics = [apiCalls |-> 0, cacheHits |-> 0, errors |-> 0,
                successfulRoutes |-> 0]
  /\ pc = [p \in Procs |-> "idle"]
  /\ lead = [p \in Procs |-> NullLead]
  /\ locations = [p \in Procs |-> NoList]
  /\ finalScore = [p \in Procs |-> 0]
  /\ task = [p \in Procs |-> <<>>]
  /\ nearest = [p \in Procs |-> <<>>]
  /\ capacity = [p \in Procs |-> <<>>]
  /\ selected = [p \in Procs |-> 0]
  /\ outcome = [p \in Procs |-> ""]
  /\ events = [p \in Procs |-> <<>>]
  /\ geoRequests = [p \in Procs |-> 0]
  /\ capRequests = [p \in Procs |-> 0]
  /\ steps = [p \in Procs |-> <<>>]
  /\ result = [p \in Procs |-> NoResult]
  /\ now = 0
  /\ due = {}
  /\ written = <<>>

\* no dashboard page is open
NoDashboard ==
  /\ apiConfig = [useRealApis |-> FALSE, jsonbinApiKey |-> FALSE]
  /\ data = 0
  /\ refreshInterval = "null"
  /\ shown = 0
  /\ loadCalls = <<>>
  /\ serial = 0

\* What the capacity bins can hold.  loc_003 is near no lead and is never
\* read; the flags matter only to a router that reads the bins.
StoreLoads ==
  { f \in [LocIds -> Loads] : f["loc_003"] = MAX_DAILY_LEADS_PER_LOCATION }
StoreFlags ==
  { f \in [LocIds -> BOOLEAN] :
      f["loc_003"] /\ (f["loc_001"] \/ f["loc_002"]) }
AllOperational == [id \in LocIds |-> TRUE]

\* A router without the key of the capacity bins never reads a load or a
\* flag; with the key, the bin of loc_001 is the one that varies.
Init ==
  /\ config \in Configs
  /\ load \in { f \in StoreLoads :
                  /\ f["loc_002"] = MAX_DAILY_LEADS_PER_LOCATION
                  /\ f["loc_001"] >= MAX_DAILY_LEADS_PER_LOCATION - 1
                  /\ ~config.JSONBIN =>
                       f["loc_001"] = MAX_DAILY_LEADS_PER_LOCATION }
  /\ operational \in IF config.JSONBIN
                      THEN { f \in StoreFlags : f["loc_002"] }
                      ELSE {AllOperational}
  /\ Idle
  /\ NoDashboard

InitConc ==
  /\ config \in { c \in Configs : ~c.WEBHOOK_URL /\ c.FALLBACK_ENABLED }
  /\ load \in { f \in StoreLoads :
                  f["loc_002"] = MAX_DAILY_LEADS_PER_LOCATION - 1 }
  /\ operational = AllOperational
  /\ Idle
  /\ NoDashboard

(***************************************************************************)
(* routeLead, from its entry to the first await (lines 79-94), with the    *)
(* synchronous start of getNearestLocationsReal: every callback of         *)
(* locations.map runs up to its own first await, i.e. it looks its key up  *)
(* in the cache and, on a miss, issues the two zip lookups (lines          *)
(* 139-150, 175-178, 197).                                                 *)
(***************************************************************************)
\* the promise of one locations.map callback, right after the map; failed
\* counts the zip lookups of the callback that ended in an error
StartTask(leadZip, location) ==
  IF location.isNull
  THEN [state |-> "thrown", distance |-> 0, failed |-> 0]
  ELSE IF CacheKey(leadZip, location.zipCode) \in DOMAIN cache
       THEN [state |-> "hit",
             distance |-> cache[CacheKey(leadZip, location.zipCode)],
             failed |-> 0]
       ELSE [state |-> "pending", distance |-> 0, failed |-> 0]

CountState(tasks, st) ==
  Cardinality({ i \in 1..Len(tasks) : tasks[i].state = st })

routeLeadBegin(p, ld, ls, hour) ==
  /\ pc[p] = "idle"
  /\ lead' = [lead EXCEPT ![p] = ld]
  /\ locations' = [locations EXCEPT ![p] = ls]
  /\ IF ~validateLead(ld)
     THEN /\ result' = [result EXCEPT ![p] = createErrorResponse("INVALID_LEAD")]
          /\ pc' = [pc EXCEPT ![p] = "done"]
          /\ metrics' = [metrics EXCEPT !.apiCalls = @ + 1]
          /\ steps' = [steps EXCEPT ![p] = <<"validateLead">>]
          /\ UNCHANGED <<finalScore, task, geoRequests>>
     ELSE IF ld.frozen
     THEN \* lead.finalScore = ... throws; the catch of routeLead answers
          /\ result' = [result EXCEPT ![p] = createErrorResponse("SYSTEM_ERROR")]
          /\ pc' = [pc EXCEPT ![p] = "done"]
          /\ metrics' = [metrics EXCEPT !.apiCalls = @ + 1, !.errors = @ + 1]
          /\ steps' = [steps EXCEPT ![p] =
                         <<"validateLead", "calculateLeadScore">>]
          /\ UNCHANGED <<finalScore, task, geoRequests>>
     ELSE LET tasks == IF ls.absent THEN <<>>
                       ELSE [i \in 1..Len(ls.items) |->
                               StartTask(ld.zip, ls.items[i])]
          IN  /\ finalScore' = [finalScore EXCEPT ![p] =
                                  calculateLeadScore(ld, hour)]
              /\ task' = [task EXCEPT ![p] = tasks]
              /\ geoRequests' = [geoRequests EXCEPT ![p] =
                                   2 * CountState(tasks, "pending")]
              /\ metrics' = [metrics EXCEPT
                               !.apiCalls = @ + 1,
                               !.cacheHits = @ + CountState(tasks, "hit")]
              /\ steps' = [steps EXCEPT ![p] =
                             <<"validateLead", "calculateLeadScore",
                               "getNearestLocationsReal">>]
              /\ pc' = [pc EXCEPT ![p] = "distances"]
              /\ UNCHANGED result
  /\ UNCHANGED <<shared, cache, timers, nearest, capacity, selected,
                 outcome, events, capRequests>>

(***************************************************************************)
(* One callback of locations.map after its await (lines 150-156): the two  *)
(* lookups of calculateRealDistance have come back, the distance is        *)
(* cached and its eviction is scheduled.                                   *)
(***************************************************************************)
calculateRealDistanceDone(p, i) ==
  /\ i \in 1..Len(task[p])
  /\ task[p][i].state = "pending"
  /\ LET zip1 == lead[p].zip
         zip2 == locations[p].items[i].zipCode
         key == CacheKey(zip1, zip2)
     IN  \E a1 \in GeoAnswers(zip1), a2 \in GeoAnswers(zip2) :
           LET distance == calculateRealDistance(zip1, zip2, a1, a2)
               failed == Cardinality({ k \in 1..2 : <<a1, a2>>[k] = "error" })
           IN  IF calculateRealDistanceThrows(a1, a2)
               THEN \* the callback rejects: nothing is cached
                    /\ task' = [task EXCEPT ![p][i] =
                                  [state |-> "thrown", distance |-> 0,
                                   failed |-> failed]]
                    /\ UNCHANGED <<cache, timers>>
               ELSE /\ task' = [task EXCEPT ![p][i] =
                                  [state |-> "resolved",
                                   distance |-> distance,
                                   failed |-> failed]]
                    /\ cache' = (key :> distance) @@ cache
                    /\ timers' = (key :> (IF key \in DOMAIN timers
                                          THEN timers[key] + 1 ELSE 1))
                                 @@ timers
  /\ UNCHANGED <<shared, metrics, pc, lead, locations, finalScore, nearest,
                 capacity, selected, outcome, events, geoRequests,
                 capRequests, steps, result>>

(***************************************************************************)
(* setTimeout(() => this.cache.delete(cacheKey), CACHE_TTL) fires          *)
(* (line 154).                                                             *)
(***************************************************************************)
cacheTimerFires(key) ==
  /\ key \in DOMAIN timers
  /\ timers[key] > 0
  /\ timers' = IF timers[key] = 1
                THEN [k \in DOMAIN timers \ {key} |-> timers[k]]
                ELSE [timers EXCEPT ![key] = @ - 1]
  /\ cache' = [k \in DOMAIN cache \ {key} |-> cache[k]]
  /\ UNCHANGED <<shared, metrics, pc, lead, locations, finalScore, task,
                 nearest, capacity, selected, outcome, events, geoRequests,
                 capRequests, steps, result>>

\* Settled for a gathering that goes on as soon as one callback is over
SettledAny(tasks) ==
  tasks = <<>> \/ CountState(tasks, "pending") < Len(tasks)

(***************************************************************************)
(* getNearestLocationsReal returns (lines 160-167) and routeLead goes on   *)
(* to its next await (lines 96-102): with no location near it hands        *)
(* NO_NEARBY_LOCATIONS to logRoutingEvent, otherwise                       *)
(* checkLocationCapacities issues one capacity read per near location      *)
(* (lines 244-246).                                                        *)
(***************************************************************************)
\* Promise.all has settled: it rejects with the first rejected promise and
\* fulfils once every promise is fulfilled
Settled(tasks) ==
  \/ CountState(tasks, "thrown") > 0
  \/ CountState(tasks, "pending") = 0

\* getNearestLocationsReal without its try/catch: an exception of the map
\* reaches the caller
getNearestLocationsRealNoCatch(ls, tasks) ==
  IF ls.absent \/ CountState(tasks, "thrown") > 0
  THEN [threw |-> TRUE, value |-> <<>>]
  ELSE [threw |-> FALSE,
        value |-> FilterAndSort([i \in 1..Len(tasks) |->
                    Candidate(ls.items[i], tasks[i].distance)])]

\* getNearestLocationsReal(leadZip, locations), once Promise.all settled:
\* the array it returns, and whether it throws instead (it never does: the
\* catch of lines 164-167 answers every exception with an empty array)
getNearestLocationsReal(ls, tasks) ==
  IF ls.absent \/ CountState(tasks, "thrown") > 0
  THEN [threw |-> FALSE, value |-> <<>>]
  ELSE [threw |-> FALSE,
        value |-> FilterAndSort([i \in 1..Len(tasks) |->
                    Candidate(ls.items[i], tasks[i].distance)])]

getNearestLocationsRealReturn(p) ==
  /\ pc[p] = "distances"
  /\ Settled(task[p])
  /\ LET got == getNearestLocationsReal(locations[p], task[p])
         near == got.value
     IN  IF got.threw
         THEN \* the catch of routeLead (lines 127-131)
              /\ result' = [result EXCEPT ![p] =
                              createErrorResponse("SYSTEM_ERROR")]
              /\ metrics' = [metrics EXCEPT !.errors = @ + 1]
              /\ pc' = [pc EXCEPT ![p] = "done"]
              /\ UNCHANGED <<nearest, outcome, capacity, capRequests, steps>>
         ELSE /\ nearest' = [nearest EXCEPT ![p] = near]
              /\ IF Len(near) = 0
                 THEN /\ outcome' = [outcome EXCEPT ![p] =
                                       "NO_NEARBY_LOCATIONS"]
                      /\ steps' = [steps EXCEPT ![p] =
                                     Append(@, "logRoutingEvent")]
                      /\ pc' = [pc EXCEPT ![p] = "log"]
                      /\ UNCHANGED <<capacity, capRequests>>
                 ELSE /\ capacity' = [capacity EXCEPT ![p] =
                                        [j \in 1..Len(near) |-> Unread]]
                      /\ capRequests' = [capRequests EXCEPT ![p] = Len(near)]
                      /\ steps' = [steps EXCEPT ![p] =
                                     Append(@, "checkLocationCapacities")]
                      /\ pc' = [pc EXCEPT ![p] = "capacity"]
                      /\ UNCHANGED outcome
              /\ UNCHANGED <<result, metrics>>
  /\ UNCHANGED <<shared, cache, timers, lead, locations, finalScore,
                 task, selected, events, geoRequests>>

(***************************************************************************)
(* getLocationCapacityReal for one near location (lines 259-285)           *)
(***************************************************************************)
\* every record getLocationCapacityReal(locationId) can return
getLocationCapacityReal(locationId) ==
  IF ~config.JSONBIN
  THEN getSimulatedCapacity
  ELSE UNION { IF answer = "ok" THEN {StoreRecord(locationId)}
               ELSE getSimulatedCapacity : answer \in StoreAnswers }

getLocationCapacityRealDone(p, j) ==
  /\ pc[p] = "capacity"
  /\ j \in 1..Len(capacity[p])
  /\ ~capacity[p][j].read
  /\ \E c \in getLocationCapacityReal(nearest[p][j].id) :
       capacity' = [capacity EXCEPT ![p][j] = c]
  /\ UNCHANGED <<shared, cache, timers, metrics, pc, lead, locations,
                 finalScore, task, nearest, selected, outcome, events,
                 geoRequests, capRequests, steps, result>>

(***************************************************************************)
(* checkLocationCapacities has gathered every read; routeLead selects      *)
(* (lines 102-113) and hands the outcome to logRoutingEvent.               *)
(***************************************************************************)
\* AvailableIndices for a filter that does not look at the status
AvailableIndicesAnyStatus(near, caps) ==
  { j \in 1..Len(near) : caps[j].hasCapacity }

\* the indices of the locations selectOptimalLocation keeps as available
AvailableIndices(near, caps) ==
  { j \in 1..Len(near) :
      caps[j].hasCapacity /\ near[j].status = "active" }

MinOf(S) == CHOOSE x \in S : \A y \in S : x <= y

\* selectOptimalLocation that prefers the low-traffic tier for every lead
selectOptimalLocationTierFirst(score, near, caps) ==
  LET available == AvailableIndices(near, caps)
      lowTraffic == { j \in available : near[j].priority = "low-traffic" }
  IN  IF available = {} THEN 0
      ELSE IF lowTraffic # {} THEN MinOf(lowTraffic)
      ELSE MinOf(available)

\* selectOptimalLocation that takes the closest available location for
\* every lead
selectOptimalLocationClosest(score, near, caps) ==
  LET available == AvailableIndices(near, caps)
  IN  IF available = {} THEN 0 ELSE MinOf(available)

\* selectOptimalLocation(lead, locations): the index of the location it
\* returns, 0 for null
selectOptimalLocation(score, near, caps) ==
  LET available == AvailableIndices(near, caps)
      lowTraffic == { j \in available : near[j].priority = "low-traffic" }
  IN  IF available = {} THEN 0
      ELSE IF score >= HIGH_SCORE_THRESHOLD THEN MinOf(available)
      ELSE IF lowTraffic # {} THEN MinOf(lowTraffic)
      ELSE MinOf(available)

selectOptimalLocationStep(p) ==
  /\ pc[p] = "capacity"
  /\ \A j \in 1..Len(capacity[p]) : capacity[p][j].read
  /\ LET sel == selectOptimalLocation(finalScore[p], nearest[p], capacity[p])
     IN  /\ selected' = [selected EXCEPT ![p] = sel]
         /\ outcome' = [outcome EXCEPT ![p] =
                          IF sel = 0 THEN "NO_CAPACITY" ELSE "SUCCESS"]
  /\ steps' = [steps EXCEPT ![p] =
                 @ \o <<"selectOptimalLocation", "logRoutingEvent">>]
  /\ pc' = [pc EXCEPT ![p] = "log"]
  /\ UNCHANGED <<shared, cache, timers, metrics, lead, locations, finalScore,
                 task, nearest, capacity, events, geoRequests, capRequests,
                 result>>

(***************************************************************************)
(* logRoutingEvent (lines 290-321) and the return of routeLead after it    *)
(* (lines 98, 109, 115-125).                                               *)
(***************************************************************************)
\* What the fetch of a delivery can come back with: "delivered" for a
\* response that is ok, "failed" for one that is not, "threw" for a fetch
\* that rejects; "skipped" when the backend is not configured.
Deliveries(configured) ==
  IF configured THEN {"delivered", "failed", "threw"} ELSE {"skipped"}

\* sendToWebhook without its try/catch
sendToWebhookNoCatch(answer) ==
  [threw |-> answer = "threw", value |-> answer = "delivered"]

\* sendToWebhook(url, data), given the answer of its fetch: what it
\* returns, and whether it throws instead (its catch returns false)
sendToWebhook(answer) ==
  [threw |-> FALSE, value |-> answer = "delivered"]

\* storeEventData(eventData), given the answer of its fetch
storeEventData(answer) ==
  [threw |-> FALSE, value |-> answer = "delivered"]

\* logRoutingEventCompletes for deliveries whose exceptions reach the
\* caller of logRoutingEvent
logRoutingEventPropagates(webhook, stored) ==
  webhook # "threw" /\ stored # "threw"

\* whether logRoutingEvent returns normally to routeLead, given the answers
\* of its deliveries: the deliveries catch their own exceptions and the
\* try/catch of lines 304-320 catches whatever is left
logRoutingEventCompletes(webhook, stored) ==
  LET thrown == sendToWebhook(webhook).threw \/ storeEventData(stored).threw
      \* catch (error) of line 318 takes every exception of the try block
      caught == thrown
  IN  ~thrown \/ caught

\* RoutingEvent for an eventData that names the nearest candidate, selected
\* or not
RoutingEventNearest(p, webhook, stored) ==
  [outcome |-> outcome[p],
   selectedLocationId |->
     IF nearest[p] = <<>> THEN "" ELSE nearest[p][1].id,
   leadScore |-> finalScore[p],
   webhook |-> webhook, stored |-> stored, console |-> TRUE]

\* eventData, with the fate of its two deliveries
RoutingEvent(p, webhook, stored) ==
  [outcome |-> outcome[p],
   selectedLocationId |->
     IF selected[p] = 0 THEN "" ELSE nearest[p][selected[p]].id,
   leadScore |-> finalScore[p],
   webhook |-> webhook, stored |-> stored, console |-> TRUE]

\* the result routeLead returns for the outcome it handed to logRoutingEvent
routeLeadReturn(p) ==
  CASE outcome[p] = "NO_NEARBY_LOCATIONS" ->
         createErrorResponse("OUT_OF_RANGE")
    [] outcome[p] = "NO_CAPACITY" ->
         createErrorResponse("NO_CAPACITY")
    [] OTHER ->
         SuccessResponse(nearest[p][selected[p]], finalScore[p])

logRoutingEvent(p) ==
  /\ pc[p] = "log"
  /\ \E webhook \in Deliveries(config.WEBHOOK_URL),
        stored \in Deliveries(config.JSONBIN) :
       /\ events' = [events EXCEPT ![p] =
                       Append(@, RoutingEvent(p, webhook, stored))]
       /\ IF logRoutingEventCompletes(webhook, stored)
          THEN /\ result' = [result EXCEPT ![p] = routeLeadReturn(p)]
               /\ metrics' = [metrics EXCEPT !.successfulRoutes =
                                IF outcome[p] = "SUCCESS" THEN @ + 1 ELSE @]
          ELSE \* the catch of routeLead (lines 127-131)
               /\ result' = [result EXCEPT ![p] =
                               createErrorResponse("SYSTEM_ERROR")]
               /\ metrics' = [metrics EXCEPT !.errors = @ + 1]
  /\ pc' = [pc EXCEPT ![p] = "done"]
  /\ UNCHANGED <<shared, cache, timers, lead, locations, finalScore, task,
                 nearest, capacity, selected, outcome, geoRequests,
                 capRequests, steps>>

(***************************************************************************)
(* Specifications                                                          *)
(***************************************************************************)
CacheKeys == { CacheKey(z1, z2) : z1 \in {Z90210, Z99999},
                                  z2 \in {Z90210, Z90025, Z10001} }

\* the steps of call p after the distances are resolved
Continue(p) ==
  \/ getNearestLocationsRealReturn(p) /\ UNCHANGED timed
  \/ \E j \in 1..2 : getLocationCapacityRealDone(p, j) /\ UNCHANGED timed
  \/ selectOptimalLocationStep(p) /\ UNCHANGED timed
  \/ logRoutingEvent(p) /\ UNCHANGED timed

\* one routeLead call on any lead and any location list, up to its return
Next ==
  \/ \E ld \in Leads, ls \in LocationLists, hour \in Hours :
       routeLeadBegin(1, ld, ls, hour) /\ UNCHANGED timed
  \/ \E i \in 1..2 : calculateRealDistanceDone(1, i) /\ UNCHANGED timed
  \/ Continue(1)

Spec == Init /\ [][Next]_vars

\* NumCalls routeLead calls in any interleaving
NextConc ==
  \/ \E p \in Procs, ld \in ConcLeads, ls \in ConcLists, hour \in Hours :
       routeLeadBegin(p, ld, ls, hour) /\ UNCHANGED timed
  \/ \E p \in Procs, i \in 1..2 :
       calculateRealDistanceDone(p, i) /\ UNCHANGED timed
  \/ \E p \in Procs : Continue(p)
  \/ \E key \in CacheKeys : cacheTimerFires(key) /\ UNCHANGED timed

SpecConc == InitConc /\ [][NextConc]_vars

(***************************************************************************)
(* The distance cache against a clock.  setTimeout(f, CACHE_TTL) runs f    *)
(* CACHE_TTL after the call; a timer that is due runs before the clock     *)
(* moves on and before any other step of that instant.                     *)
(***************************************************************************)
\* no scheduled cache.delete is due
NothingDue == \A t \in due : t.at > now

InitCache ==
  /\ config = [JSONBIN |-> FALSE, WEBHOOK_URL |-> FALSE,
               FALLBACK_ENABLED |-> TRUE]
  /\ load = [id \in LocIds |-> MAX_DAILY_LEADS_PER_LOCATION - 1]
  /\ operational = AllOperational
  /\ Idle
  /\ NoDashboard

\* the clock moves on by one tick
Tick ==
  /\ now < MaxTicks * TickMs
  /\ NothingDue
  /\ now' = now + TickMs
  /\ UNCHANGED <<shared, cache, timers, metrics, pc, lead, locations,
                 finalScore, task, nearest, capacity, selected, outcome,
                 events, geoRequests, capRequests, steps, result, due,
                 written>>

\* lines 153-154 at time now: cache.set and setTimeout
cacheSetAt(p, i) ==
  /\ NothingDue
  /\ calculateRealDistanceDone(p, i)
  /\ LET key == CacheKey(lead[p].zip, locations[p].items[i].zipCode)
     IN  /\ due' = due \cup {[key |-> key, at |-> now + CACHE_TTL,
                               call |-> p, entry |-> i]}
         /\ written' = (key :> [at |-> now, value |-> cache'[key]]) @@ written
  /\ UNCHANGED now

\* a scheduled cache.delete runs once its time has come
cacheDeleteAt(t) ==
  /\ t \in due
  /\ t.at <= now
  /\ cacheTimerFires(t.key)
  /\ due' = due \ {t}
  /\ UNCHANGED <<now, written>>

NextCache ==
  \/ \E p \in Procs, ld \in ConcLeads, ls \in ConcLists, hour \in Hours :
       NothingDue /\ routeLeadBegin(p, ld, ls, hour) /\ UNCHANGED timed
  \/ \E p \in Procs, i \in 1..2 : cacheSetAt(p, i)
  \/ \E p \in Procs : NothingDue /\ Continue(p)
  \/ \E t \in due : cacheDeleteAt(t)
  \/ Tick

SpecCache == InitCache /\ [][NextCache]_vars

(***************************************************************************)
(* calculateLeadScore on its own: any number of evaluations, each on any   *)
(* lead at any hour of the wall clock.                                     *)
(***************************************************************************)
\* raw quality signals: absent (or 0, which the code cannot tell from
\* absent), the ends of 1..100, the middle, and one value on either side
RawSignals == {-20, 0, 1, 50, 100, 120}

Sources == {"facebook", "referral", "website", "walk-in", "email"}

ScoreLeads ==
  { MkLead(FALSE, TRUE, TRUE, Z90210, raw, source, complete, FALSE) :
      raw \in RawSignals, source \in Sources, complete \in BOOLEAN }

\* one evaluation of calculateLeadScore(lead) while the wall clock shows hour
calculateLeadScoreCall(p, ld, hour) ==
  /\ pc[p] = "idle"
  /\ lead' = [lead EXCEPT ![p] = ld]
  /\ finalScore' = [finalScore EXCEPT ![p] = calculateLeadScore(ld, hour)]
  /\ steps' = [steps EXCEPT ![p] = <<"calculateLeadScore">>]
  /\ pc' = [pc EXCEPT ![p] = "scored"]
  /\ UNCHANGED <<shared, timed, cache, timers, metrics, locations, task,
                 nearest, capacity, selected, outcome, events, geoRequests,
                 capRequests, result>>

NextScore ==
  \E p \in Procs, ld \in ScoreLeads, hour \in Hours :
    calculateLeadScoreCall(p, ld, hour)

SpecScore == InitCache /\ [][NextScore]_vars

(***************************************************************************)
(* Properties                                                              *)
(***************************************************************************)
\* the three variants of a routing result
Routed(r) == r.returned /\ r.success /\ ~r.waitlist
Waitlisted(r) == r.returned /\ r.waitlist
Failed(r, code) ==
  r.returned /\ ~r.success /\ ~r.waitlist /\ r.code = code

ErrorCodes ==
  {"INVALID_LEAD", "NO_LOCATIONS", "OUT_OF_RANGE", "NO_CAPACITY",
   "SYSTEM_ERROR"}

Returned(p) == pc[p] = "done"

\* the slots a location has left today
RemainingSlots(id) == MAX_DAILY_LEADS_PER_LOCATION - load[id]

\* call p has read the capacity of every near location, and read it from
\* the capacity bins
ReadTheBins(p) ==
  /\ config.JSONBIN
  /\ Len(capacity[p]) = Len(nearest[p])
  /\ \A j \in 1..Len(nearest[p]) :
       capacity[p][j] = StoreRecord(nearest[p][j].id)

\* the calls that were given location id as their only candidate, saw its
\* true capacity and returned Routed to it
RoutedToOnly(id) ==
  { p \in Procs :
      /\ Returned(p)
      /\ Len(locations[p].items) = 1
      /\ locations[p].items[1].id = id
      /\ ReadTheBins(p)
      /\ Routed(result[p])
      /\ result[p].locationId = id }

\* C1: of the calls whose only candidate is one location with K remaining
\* slots, at most K return Routed to that location.
C1_CapacitySafety ==
  \A id \in LocIds : Cardinality(RoutedToOnly(id)) <= RemainingSlots(id)

\* C2: no call returns Routed to a location whose load already stands at or
\* above its maximum daily load.
C2_NoOversubscription ==
  \A p \in Procs :
    Routed(result[p]) =>
      load[result[p].locationId] < MAX_DAILY_LEADS_PER_LOCATION

\* call p selected the location id
Selected(p, id) ==
  /\ selected[p] # 0
  /\ nearest[p][selected[p]].id = id

\* C3: when two calls select the same location with one remaining slot,
\* exactly one of them returns Routed to it, and the other is Routed to
\* another candidate or returns Failed{SystemError}.
C3_SingleSlotRace ==
  \A p, q \in Procs : \A id \in LocIds :
    ( /\ p # q
      /\ Returned(p) /\ Returned(q)
      /\ Selected(p, id) /\ Selected(q, id)
      /\ RemainingSlots(id) = 1 )
    => \E winner \in {p, q} :
         LET loser == CHOOSE x \in {p, q} : x # winner
         IN  /\ Routed(result[winner])
             /\ result[winner].locationId = id
             /\ \/ Routed(result[loser]) /\ result[loser].locationId # id
                \/ Failed(result[loser], "SYSTEM_ERROR")

\* the lead's postal code is missing or is not exactly five ASCII digits
BadPostalCode(ld) ==
  \/ ld.isNull
  \/ ~ld.hasZip
  \/ Len(ld.zip) # 5
  \/ \E i \in 1..Len(ld.zip) : ld.zip[i] \notin AsciiDigits

\* C4: a call on a lead whose postal code is missing or is not exactly five
\* ASCII digits returns Failed{InvalidInput} right after validation: nothing
\* is scored, no zip lookup and no capacity read is issued, and no routing
\* event is emitted, whatever the location list.
C4_InvalidPostalCode ==
  \A p \in Procs :
    (pc[p] # "idle" /\ BadPostalCode(lead[p])) =>
      /\ Failed(result[p], "INVALID_LEAD")
      /\ steps[p] = <<"validateLead">>
      /\ geoRequests[p] = 0
      /\ capRequests[p] = 0
      /\ events[p] = <<>>

C4_Witness ==
  \E p \in Procs :
    /\ Returned(p)
    /\ ~lead[p].isNull /\ lead[p].hasZip /\ lead[p].hasId
    /\ Len(lead[p].zip) > 5
    /\ Len(locations[p].items) > 0
    /\ Failed(result[p], "INVALID_LEAD")

\* a lead that passes validation and can be written to
Routable(ld) == validateLead(ld) /\ ~ld.frozen

\* C5: a call on a lead with a well-formed postal code and an empty or
\* absent location list returns Failed{NoLocations}.
C5_NoLocations ==
  \A p \in Procs :
    ( /\ Returned(p)
      /\ Routable(lead[p])
      /\ (locations[p].absent \/ locations[p].items = <<>>) )
    => Failed(result[p], "NO_LOCATIONS")

\* call p was given a non-empty location list, has a distance for every
\* entry of it, and every distance exceeds the service radius
NoneWithinRadius(p) ==
  /\ ~locations[p].absent
  /\ Len(locations[p].items) > 0
  /\ Len(task[p]) = Len(locations[p].items)
  /\ \A i \in 1..Len(task[p]) :
       /\ task[p][i].state \in {"hit", "resolved"}
       /\ task[p][i].distance > ZIP_RADIUS_MILES

\* C6: when the location list is non-empty and no location is within the
\* service radius, the call never reads a capacity, and when it returns it
\* has logged exactly one event, NO_NEARBY_LOCATIONS, and returns
\* Failed{OutOfRange} (never Routed, never Waitlisted).
C6_OutOfRange ==
  \A p \in Procs :
    NoneWithinRadius(p) =>
      /\ capRequests[p] = 0
      /\ pc[p] \in {"distances", "log", "done"}
      /\ "checkLocationCapacities" \notin { steps[p][k] : k \in 1..Len(steps[p]) }
      /\ Returned(p) =>
           /\ Failed(result[p], "OUT_OF_RANGE")
           /\ Len(events[p]) = 1
           /\ events[p][1].outcome = "NO_NEARBY_LOCATIONS"
           /\ events[p][1].console
           /\ steps[p][Len(steps[p])] = "logRoutingEvent"

C6_Witness ==
  \E p \in Procs :
    /\ NoneWithinRadius(p)
    /\ Returned(p)
    /\ Failed(result[p], "OUT_OF_RANGE")
    /\ \E i \in 1..Len(task[p]) : task[p][i].distance # UNKNOWN_DISTANCE

Available(p) ==
  { j \in 1..Len(nearest[p]) :
      /\ j <= Len(capacity[p])
      /\ capacity[p][j].read
      /\ capacity[p][j].hasCapacity
      /\ nearest[p][j].status = "active" }

\* C8: a call on a lead whose final score reaches the high-score threshold,
\* with at least one near candidate that is operational with capacity,
\* returns Routed, with isHighPriority set, to an available candidate than
\* which no available candidate is nearer, whatever the priority tiers.
C8_HighScoreClosest ==
  \A p \in Procs :
    ( /\ Returned(p)
      /\ "calculateLeadScore" \in { steps[p][k] : k \in 1..Len(steps[p]) }
      /\ finalScore[p] >= HIGH_SCORE_THRESHOLD
      /\ Available(p) # {} )
    => /\ Routed(result[p])
       /\ result[p].isHighPriority
       /\ \E j \in Available(p) :
            /\ nearest[p][j].id = result[p].locationId
            /\ nearest[p][j].distance = result[p].estimatedDistance
            /\ \A k \in Available(p) :
                 nearest[p][j].distance <= nearest[p][k].distance

\* a high-score call routed to a high-traffic location although a
\* low-traffic one, farther away, was available too
C8_Witness ==
  \E p \in Procs :
    /\ Routed(result[p])
    /\ finalScore[p] >= HIGH_SCORE_THRESHOLD
    /\ \E j, k \in Available(p) :
         /\ nearest[p][j].id = result[p].locationId
         /\ nearest[p][j].priority = "high-traffic"
         /\ nearest[p][k].priority = "low-traffic"
         /\ nearest[p][j].distance < nearest[p][k].distance

\* the near candidates that are operational, whatever their capacity
Operational(p) ==
  { j \in 1..Len(nearest[p]) : nearest[p][j].status = "active" }

\* the operational candidates with the most available slots and, among
\* these, the nearest ones
BestFallback(p) ==
  { j \in Operational(p) :
      \A k \in Operational(p) :
        \/ capacity[p][j].availableSlots > capacity[p][k].availableSlots
        \/ /\ capacity[p][j].availableSlots = capacity[p][k].availableSlots
           /\ nearest[p][j].distance <= nearest[p][k].distance }

\* C9: with fallback enabled, a call with near candidates of which none is
\* operational with capacity, but at least one is operational, returns
\* Waitlisted naming the operational candidate with the most available
\* slots (the nearer one on a tie), and not Failed{NoCapacity}.
C9_FallbackWaitlist ==
  \A p \in Procs :
    ( /\ Returned(p)
      /\ config.FALLBACK_ENABLED
      /\ Len(nearest[p]) > 0
      /\ Len(capacity[p]) = Len(nearest[p])
      /\ \A j \in 1..Len(capacity[p]) : capacity[p][j].read
      /\ Available(p) = {}
      /\ Operational(p) # {} )
    => /\ Waitlisted(result[p])
       /\ \E j \in BestFallback(p) :
            nearest[p][j].id = result[p].locationId

\* the location list of call p holds a null entry
HasNullEntry(p) ==
  \E i \in 1..Len(locations[p].items) : locations[p].items[i].isNull

SinkFailed(p) ==
  /\ Len(events[p]) = 1
  /\ \/ events[p][1].webhook \in {"failed", "threw"}
     \/ events[p][1].stored \in {"failed", "threw"}

\* C11: a call that has logged its event returns the result its routing
\* decision determines, whatever became of the webhook POST and of the
\* analytics write: the same result as with working sinks, and never the
\* SystemError of a propagated exception.
C11_SinkFailureIsolated ==
  \A p \in Procs :
    (Returned(p) /\ Len(events[p]) = 1) =>
      /\ result[p] = routeLeadReturn(p)
      /\ ~Failed(result[p], "SYSTEM_ERROR")

\* a call Routed although the webhook fetch rejected and the analytics
\* write was refused
C11_Witness ==
  \E p \in Procs :
    /\ Returned(p)
    /\ SinkFailed(p)
    /\ events[p][1].webhook = "threw"
    /\ events[p][1].stored = "failed"
    /\ Routed(result[p])

\* what a read of the cache returns for key (lines 144-146)
cacheRead(key) ==
  IF key \in DOMAIN cache THEN [hit |-> TRUE, value |-> cache[key]]
  ELSE [hit |-> FALSE, value |-> 0]

\* C12: a read of a key within CACHE_TTL of the latest write of the key
\* returns the written value, and a read CACHE_TTL or more after it misses;
\* in particular the eviction scheduled by an earlier write leaves the
\* entry of a later write in place until that entry's own expiry.
C12_TtlCache ==
  \A key \in DOMAIN written :
    NothingDue =>
      IF now < written[key].at + CACHE_TTL
      THEN cacheRead(key) = [hit |-> TRUE, value |-> written[key].value]
      ELSE ~cacheRead(key).hit

\* The zip lookups call p has issued: one for each of the two postal codes
\* of every map callback that missed the cache (lines 175-178).
Lookups(p) ==
  { <<i, side>> \in (1..Len(task[p])) \X {"lead", "location"} :
      task[p][i].state \in {"pending", "resolved"} }

LookupZip(p, l) ==
  IF l[2] = "lead" THEN lead[p].zip ELSE locations[p].items[l[1]].zipCode

\* the lookups of call p that have not come back yet
InFlight(p) == { l \in Lookups(p) : task[p][l[1]].state = "pending" }

\* C13: at no time are two zip lookups of one call in flight for the same
\* postal code.
C13_SingleFlight ==
  \A p \in Procs : \A l1, l2 \in InFlight(p) :
    LookupZip(p, l1) = LookupZip(p, l2) => l1 = l2

RECURSIVE FailedLookups(_)
\* the zip lookups of the given callbacks that ended in an error
FailedLookups(tasks) ==
  IF tasks = <<>> THEN 0
  ELSE tasks[Len(tasks)].failed
       + FailedLookups(SubSeq(tasks, 1, Len(tasks) - 1))

\* C14: once every distance of a call is resolved, the call has issued one
\* lookup to the primary provider for each postal code it had to resolve
\* and exactly one more, to the secondary provider, for each primary lookup
\* that ended in an error; no lookup throws to its caller.
C14_SecondaryProvider ==
  \A p \in Procs :
    (pc[p] # "idle" /\ InFlight(p) = {}) =>
      /\ geoRequests[p] = Cardinality(Lookups(p)) + FailedLookups(task[p])
      /\ \A i \in 1..Len(task[p]) :
           task[p][i].state = "thrown" => locations[p].items[i].isNull

\* call p has evaluated the score of its lead
Scored(p) ==
  "calculateLeadScore" \in { steps[p][k] : k \in 1..Len(steps[p]) }

\* C15: every computed lead score is an integer from 0 to 100.
C15_ScoreRange ==
  \A p \in Procs : Scored(p) => finalScore[p] \in 0..100

\* C16: two evaluations of the score on the same lead data yield the same
\* score, whatever the wall clock showed at either evaluation.
C16_ScorerDeterminism ==
  \A p, q \in Procs :
    (Scored(p) /\ Scored(q) /\ lead[p] = lead[q]) =>
      finalScore[p] = finalScore[q]

(***************************************************************************)
(* Retries: a caller re-invokes routeLead with the same lead and the same  *)
(* locations after a call that returned a failure.                         *)
(***************************************************************************)
FailedAny(r) == \E code \in ErrorCodes : Failed(r, code)

RetryLeads ==
  { DemoLead, MkLead(FALSE, TRUE, TRUE, ZShort, 85, "facebook", TRUE, FALSE) }

RetryLists == { List(<<>>), List(<<LocA>>) }

InitRetry ==
  /\ config \in { c \in Configs : ~c.WEBHOOK_URL /\ c.FALLBACK_ENABLED }
  /\ load \in { f \in StoreLoads :
                  f["loc_002"] = MAX_DAILY_LEADS_PER_LOCATION }
  /\ operational = AllOperational
  /\ Idle
  /\ NoDashboard

\* call p is the re-invocation of call p - 1, which returned a failure
routeLeadRetry(p, hour) ==
  /\ p - 1 \in Procs
  /\ Returned(p - 1)
  /\ FailedAny(result[p - 1])
  /\ routeLeadBegin(p, lead[p - 1], locations[p - 1], hour)

NextRetry ==
  \/ \E ld \in RetryLeads, ls \in RetryLists, hour \in Hours :
       routeLeadBegin(1, ld, ls, hour) /\ UNCHANGED timed
  \/ \E p \in Procs, hour \in Hours :
       routeLeadRetry(p, hour) /\ UNCHANGED timed
  \/ \E p \in Procs, i \in 1..2 :
       calculateRealDistanceDone(p, i) /\ UNCHANGED timed
  \/ \E p \in Procs : Continue(p)
  \/ \E key \in CacheKeys : cacheTimerFires(key) /\ UNCHANGED timed

SpecRetry == InitRetry /\ [][NextRetry]_vars

\* call p re-invoked routeLead after the failure of call p - 1
IsRetry(p) ==
  /\ p - 1 \in Procs
  /\ pc[p] # "idle"
  /\ FailedAny(result[p - 1])
  /\ lead[p] = lead[p - 1]
  /\ locations[p] = locations[p - 1]

\* C17: no step of a call changes the capacity state of a location, and a
\* call re-invoked after a failure with the same lead and locations is
\* never Routed to a location whose load stands at its maximum.
C17_IdempotentRetry ==
  /\ [][load' = load /\ operational' = operational]_vars
  /\ [](\A p \in Procs :
          (IsRetry(p) /\ Routed(result[p])) =>
            load[result[p].locationId] < MAX_DAILY_LEADS_PER_LOCATION)

(***************************************************************************)
(* The dashboard page: FranchiseDashboard (src/unnamed/part_000).  The     *)
(* constructor calls init(), which runs up to the first await of           *)
(* loadData; a data set is named by the number of the load that produced   *)
(* it.                                                                     *)
(***************************************************************************)
router ==
  <<config, load, operational, cache, timers, metrics, pc, lead, locations,
    finalScore, task, nearest, capacity, selected, outcome, events,
    geoRequests, capRequests, steps, result, now, due, written>>

ApiConfigs == [useRealApis : BOOLEAN, jsonbinApiKey : BOOLEAN]

\* What the fetch of loadRealData can come back with: "records" for a bin
\* with analytics records, "empty" for one without, "notok" for a response
\* that is not ok, "error" for a fetch that rejects.
RealAnswers == {"records", "empty", "notok", "error"}

\* one loadData call: who made it, where it stands, the data set it loaded
\* (0 for none) and the data set its updateUI displayed (0 for none)
LoadCall(kind, stage, got, showed) ==
  [kind |-> kind, stage |-> stage, got |-> got, showed |-> showed]

\* loadData() up to its first await (lines 105-116) under configuration cfg
loadData(kind, cfg) ==
  /\ Len(loadCalls) < MaxLoads
  /\ IF cfg.useRealApis /\ cfg.jsonbinApiKey
     THEN /\ loadCalls' =
               Append(loadCalls, LoadCall(kind, "loadRealData", 0, 0))
          /\ UNCHANGED <<data, shown, serial>>
     ELSE IF data = 0
     THEN /\ loadCalls' =
               Append(loadCalls, LoadCall(kind, "simulateAPICall", 0, 0))
          /\ UNCHANGED <<data, shown, serial>>
     ELSE \* this.data is set: nothing is loaded, updateUI shows it again
          /\ loadCalls' = Append(loadCalls, LoadCall(kind, "done", 0, data))
          /\ shown' = data
          /\ UNCHANGED <<data, serial>>

\* the page right after new FranchiseDashboard()
InitDash ==
  /\ config = [JSONBIN |-> FALSE, WEBHOOK_URL |-> FALSE,
               FALLBACK_ENABLED |-> TRUE]
  /\ load = [id \in LocIds |-> MAX_DAILY_LEADS_PER_LOCATION - 1]
  /\ operational = AllOperational
  /\ Idle
  /\ apiConfig \in ApiConfigs
  /\ data = 0
  /\ refreshInterval = "null"
  /\ shown = 0
  /\ serial = 0
  /\ loadCalls =
       <<LoadCall("init",
                  IF apiConfig.useRealApis /\ apiConfig.jsonbinApiKey
                  THEN "loadRealData" ELSE "simulateAPICall", 0, 0)>>

\* init() after await this.loadData(): startAutoRefresh (lines 17-21,
\* 328-333)
startAutoRefresh(c) ==
  refreshInterval' =
    IF loadCalls[c].kind = "init" THEN "running" ELSE refreshInterval

\* loadData call c after await this.loadRealData() (lines 109-116, 124-143)
loadRealDataDone(c, answer) ==
  /\ c \in 1..Len(loadCalls)
  /\ loadCalls[c].stage = "loadRealData"
  /\ IF answer = "records"
     THEN /\ serial' = serial + 1
          /\ data' = serial'
          /\ shown' = data'
          /\ loadCalls' = [loadCalls EXCEPT ![c] =
                             LoadCall(@.kind, "done", serial', shown')]
          /\ startAutoRefresh(c)
     ELSE \* this.data = null, then the simulated fallback is awaited
          /\ data' = 0
          /\ loadCalls' = [loadCalls EXCEPT ![c].stage = "simulateAPICall"]
          /\ UNCHANGED <<serial, shown, refreshInterval>>
  /\ UNCHANGED <<router, apiConfig>>

\* loadData call c after await this.simulateAPICall() (lines 113-116)
simulateAPICallDone(c) ==
  /\ c \in 1..Len(loadCalls)
  /\ loadCalls[c].stage = "simulateAPICall"
  /\ serial' = serial + 1
  /\ data' = serial'
  /\ shown' = data'
  /\ loadCalls' = [loadCalls EXCEPT ![c] =
                     LoadCall(@.kind, "done", serial', shown')]
  /\ startAutoRefresh(c)
  /\ UNCHANGED <<router, apiConfig>>

\* the callback of setInterval runs (lines 330-332)
autoRefreshTick ==
  /\ refreshInterval = "running"
  /\ loadData("tick", apiConfig)
  /\ UNCHANGED <<router, apiConfig, refreshInterval>>

\* refreshDashboard(), the manual refresh (lines 344-346)
refreshDashboard ==
  /\ loadData("manual", apiConfig)
  /\ UNCHANGED <<router, apiConfig, refreshInterval>>

\* saveApiConfig() with the values of the setup form (lines 87-103)
saveApiConfig(cfg) ==
  /\ apiConfig' = cfg
  /\ loadData("config", cfg)
  /\ UNCHANGED <<router, refreshInterval>>

\* stopAutoRefresh() (lines 335-339)
stopAutoRefresh ==
  /\ refreshInterval = "running"
  /\ refreshInterval' = "cleared"
  /\ UNCHANGED <<router, apiConfig, data, shown, loadCalls, serial>>

NextDash ==
  \/ \E c \in 1..MaxLoads, answer \in RealAnswers : loadRealDataDone(c, answer)
  \/ \E c \in 1..MaxLoads : simulateAPICallDone(c)
  \/ autoRefreshTick
  \/ refreshDashboard
  \/ \E cfg \in ApiConfigs : saveApiConfig(cfg)
  \/ stopAutoRefresh

SpecDash == InitDash /\ [][NextDash]_vars

\* C18: every loadData call made by a refresh tick or by a manual refresh
\* that has run to its end loaded a data set and displayed that data set.
C18_AutoRefresh ==
  \A c \in 1..Len(loadCalls) :
    (loadCalls[c].kind \in {"tick", "manual"} /\ loadCalls[c].stage = "done")
      => /\ loadCalls[c].got # 0
         /\ loadCalls[c].showed = loadCalls[c].got

\* C19: the location named in a Routed result is one for which the
\* capacity read reported both isOperational and hasCapacity.
C19_OperationalAndCapacity ==
  \A p \in Procs :
    Routed(result[p]) =>
      /\ selected[p] \in 1..Len(capacity[p])
      /\ capacity[p][selected[p]].read
      /\ capacity[p][selected[p]].hasCapacity
      /\ capacity[p][selected[p]].isOperational

\* the available candidates tagged low-traffic
AvailableLowTraffic(p) ==
  { j \in Available(p) : nearest[p][j].priority = "low-traffic" }

\* the candidates of S than which none of S is nearer
Closest(p, S) ==
  { j \in S : \A k \in S : nearest[p][j].distance <= nearest[p][k].distance }

\* C20: a call on a lead whose final score is below the high-score
\* threshold, with at least one available candidate, returns Routed,
\* without isHighPriority, to a closest low-traffic available candidate
\* when there is one and to a closest available candidate otherwise.
C20_StandardLeadTier ==
  \A p \in Procs :
    ( /\ Returned(p)
      /\ Scored(p)
      /\ finalScore[p] < HIGH_SCORE_THRESHOLD
      /\ Available(p) # {} )
    => /\ Routed(result[p])
       /\ ~result[p].isHighPriority
       /\ \E j \in Closest(p, IF AvailableLowTraffic(p) # {}
                              THEN AvailableLowTraffic(p)
                              ELSE Available(p)) :
            /\ nearest[p][j].id = result[p].locationId
            /\ nearest[p][j].distance = result[p].estimatedDistance

\* a standard lead routed to a low-traffic location although a
\* high-traffic one, nearer, was available too
C20_Witness ==
  \E p \in Procs :
    /\ Routed(result[p])
    /\ finalScore[p] < HIGH_SCORE_THRESHOLD
    /\ \E j, k \in Available(p) :
         /\ nearest[p][j].id = result[p].locationId
         /\ nearest[p][j].priority = "low-traffic"
         /\ nearest[p][k].priority = "high-traffic"
         /\ nearest[p][k].distance < nearest[p][j].distance

\* call p has read the capacity of every near candidate
AllCapacitiesRead(p) ==
  /\ Len(capacity[p]) = Len(nearest[p])
  /\ \A j \in 1..Len(capacity[p]) : capacity[p][j].read

\* C21: with fallback disabled, a call with near candidates of which none
\* is available returns Failed{NoCapacity}; and whatever the fallback flag,
\* Failed{NoCapacity} is returned only by a call that had near candidates,
\* read all their capacities and found none available.
C21_NoCapacity ==
  \A p \in Procs :
    /\ ( /\ Returned(p)
         /\ ~config.FALLBACK_ENABLED
         /\ Len(nearest[p]) > 0
         /\ AllCapacitiesRead(p)
         /\ Available(p) = {} )
       => Failed(result[p], "NO_CAPACITY")
    /\ Failed(result[p], "NO_CAPACITY") =>
         /\ Len(nearest[p]) > 0
         /\ AllCapacitiesRead(p)
         /\ Available(p) = {}

\* Failed{NoCapacity} with fallback disabled although a near candidate had
\* capacity: its status is not active
C21_Witness ==
  \E p \in Procs :
    /\ ~config.FALLBACK_ENABLED
    /\ Failed(result[p], "NO_CAPACITY")
    /\ \E j \in 1..Len(nearest[p]) :
         /\ capacity[p][j].hasCapacity
         /\ nearest[p][j].status # "active"


\* the rank of a location identifier in the lexicographic order of strings
IdRank(id) ==
  CASE id = "loc_001" -> 1
    [] id = "loc_002" -> 2
    [] id = "loc_003" -> 3
    [] OTHER -> 4

\* candidate j comes before candidate k in the order by distance, then by
\* location identifier
Before(p, j, k) ==
  \/ nearest[p][j].distance < nearest[p][k].distance
  \/ /\ nearest[p][j].distance = nearest[p][k].distance
     /\ IdRank(nearest[p][j].id) <= IdRank(nearest[p][k].id)

\* the candidates selectOptimalLocation chooses among for the call's score
Eligible(p) ==
  IF finalScore[p] >= HIGH_SCORE_THRESHOLD THEN Available(p)
  ELSE IF AvailableLowTraffic(p) # {} THEN AvailableLowTraffic(p)
  ELSE Available(p)

\* C22: the candidate list is ordered by ascending distance with equal
\* distances ordered by location identifier, and the location a call is
\* routed to is the first eligible candidate of that order, so the selection
\* does not depend on the order the locations were supplied in.
C22_DeterministicOrder ==
  \A p \in Procs :
    /\ \A j, k \in 1..Len(nearest[p]) : j < k => Before(p, j, k)
    /\ ( Routed(result[p]) /\ selected[p] # 0 ) =>
         \A k \in Eligible(p) : Before(p, selected[p], k)

\* two candidates at the same distance, supplied with the greater
\* identifier first, and the call routed to the greater identifier
C22_TieInInputOrder ==
  \E p \in Procs :
    /\ Routed(result[p])
    /\ selected[p] # 0
    /\ \E k \in Eligible(p) :
         /\ nearest[p][k].distance = nearest[p][selected[p]].distance
         /\ IdRank(nearest[p][k].id) < IdRank(nearest[p][selected[p]].id)


\* callback i of call p came back with one of its two postal codes not
\* resolved: a lookup ended in an error, or the service knows no place for
\* the lead's or the location's postal code
Unresolved(p, i) ==
  /\ task[p][i].state = "resolved"
  /\ \/ task[p][i].failed > 0
     \/ lead[p].zip \notin KnownZips
     \/ locations[p].items[i].zipCode \notin KnownZips

\* C23: a distance one of whose postal codes could not be resolved is the
\* sentinel 999, beyond the radius; it is written to the cache as 999; no
\* candidate within the radius and no Routed result carries it, and a call
\* is Routed only to a location whose distance was resolved or cached.
C23_UnknownDistanceSentinel ==
  /\ [](\A p \in Procs :
          /\ \A i \in 1..Len(task[p]) :
               Unresolved(p, i) =>
                 /\ task[p][i].distance = UNKNOWN_DISTANCE
                 /\ task[p][i].distance > ZIP_RADIUS_MILES
          /\ \A j \in 1..Len(nearest[p]) :
               \E i \in 1..Len(task[p]) :
                 /\ ~Unresolved(p, i)
                 /\ task[p][i].state \in {"hit", "resolved"}
                 /\ nearest[p][j] =
                      Candidate(locations[p].items[i], task[p][i].distance)
          /\ Routed(result[p]) =>
               /\ result[p].estimatedDistance # UNKNOWN_DISTANCE
               /\ \E i \in 1..Len(task[p]) :
                    /\ ~Unresolved(p, i)
                    /\ locations[p].items[i].id = result[p].locationId
                    /\ task[p][i].distance = result[p].estimatedDistance)
  /\ [][\A p \in Procs : \A i \in 1..Len(task[p]) :
          ( /\ task[p][i].state = "pending"
            /\ Len(task'[p]) = Len(task[p])
            /\ Unresolved(p, i)' )
          => LET key == CacheKey(lead[p].zip, locations[p].items[i].zipCode)
             IN  /\ key \in DOMAIN cache'
                 /\ cache'[key] = UNKNOWN_DISTANCE]_vars

\* a Routed call another location of which, active, had a postal code that
\* could not be resolved
C23_Witness ==
  \E p \in Procs :
    /\ Routed(result[p])
    /\ \E i \in 1..Len(task[p]) :
         /\ Unresolved(p, i)
         /\ locations[p].items[i].status = "active"
         /\ locations[p].items[i].id # result[p].locationId
         /\ task[p][i].distance = UNKNOWN_DISTANCE


\* read j of call p was answered by the fallback of getLocationCapacityReal
\* although the router holds the key of the bins: the store answered
\* not-ok or the fetch threw (a bin never holds a simulated record, its
\* slots being at most two)
StoreFailed(p, j) ==
  /\ config.JSONBIN
  /\ capacity[p][j].read
  /\ capacity[p][j] # StoreRecord(nearest[p][j].id)

\* C24: a failed zip lookup is recovered inside the distance calculation,
\* which resolves to the sentinel; a failed capacity read is recovered
\* inside the read, which answers with a fallback record; and a call in
\* which a lookup or a read failed never returns Failed{SystemError}.
C24_DependencyFailuresRecovered ==
  \A p \in Procs :
    /\ \A i \in 1..Len(task[p]) :
         task[p][i].failed > 0 =>
           /\ task[p][i].state = "resolved"
           /\ task[p][i].distance = UNKNOWN_DISTANCE
    /\ \A j \in 1..Len(capacity[p]) :
         StoreFailed(p, j) => capacity[p][j] \in getSimulatedCapacity
    /\ ( /\ Returned(p)
         /\ \/ FailedLookups(task[p]) > 0
            \/ \E j \in 1..Len(capacity[p]) : StoreFailed(p, j) )
       => ~Failed(result[p], "SYSTEM_ERROR")

\* a call that lost a zip lookup and a capacity read and was Routed
C24_Witness ==
  \E p \in Procs :
    /\ Routed(result[p])
    /\ FailedLookups(task[p]) > 0
    /\ \E j \in 1..Len(capacity[p]) : StoreFailed(p, j)


(***************************************************************************)
(* logRoutingEvent step by step.  Spec takes logRoutingEvent as one step,  *)
(* which supposes that both deliveries are answered; here every await of   *)
(* lines 304-320 is a step of its own, so that a delivery can be in flight *)
(* and can stay so.                                                        *)
(***************************************************************************)
\* eventData before console.log of line 316 has run
PendingEvent(p, webhook, stored) ==
  [RoutingEvent(p, webhook, stored) EXCEPT !.console = FALSE]

\* logRoutingEvent is over with the given record of its event (console.log
\* of line 316 has run unless a delivery threw), and routeLead returns
\* (lines 98, 109, 115-125)
logRoutingEventReturn(p, evs) ==
  LET ev == evs[Len(evs)]
      threw == sendToWebhook(ev.webhook).threw
               \/ storeEventData(ev.stored).threw
  IN  /\ events' = [events EXCEPT ![p] =
                      [evs EXCEPT ![Len(evs)].console = ~threw]]
      /\ IF logRoutingEventCompletes(ev.webhook, ev.stored)
         THEN /\ result' = [result EXCEPT ![p] = routeLeadReturn(p)]
              /\ metrics' = [metrics EXCEPT !.successfulRoutes =
                               IF outcome[p] = "SUCCESS" THEN @ + 1 ELSE @]
         ELSE /\ result' = [result EXCEPT ![p] =
                              createErrorResponse("SYSTEM_ERROR")]
              /\ metrics' = [metrics EXCEPT !.errors = @ + 1]
      /\ pc' = [pc EXCEPT ![p] = "done"]

\* lines 291-306: eventData is built and the first configured delivery is
\* sent; without any, the console line is written and routeLead returns
logRoutingEventBegin(p) ==
  /\ pc[p] = "log"
  /\ LET ev == PendingEvent(p,
                 IF config.WEBHOOK_URL THEN "pending" ELSE "skipped",
                 IF ~config.JSONBIN THEN "skipped"
                 ELSE IF config.WEBHOOK_URL THEN "unsent" ELSE "pending")
         evs == Append(events[p], ev)
     IN  IF config.WEBHOOK_URL \/ config.JSONBIN
         THEN /\ events' = [events EXCEPT ![p] = evs]
              /\ pc' = [pc EXCEPT ![p] =
                          IF config.WEBHOOK_URL THEN "webhook"
                          ELSE "analytics"]
              /\ UNCHANGED <<result, metrics>>
         ELSE logRoutingEventReturn(p, evs)
  /\ UNCHANGED <<shared, cache, timers, lead, locations, finalScore, task,
                 nearest, capacity, selected, outcome, geoRequests,
                 capRequests, steps>>

\* the fetch of sendToWebhook is answered (lines 326-340); storeEventData
\* is sent next if the bins are configured (lines 310-313)
sendToWebhookDone(p, answer) ==
  /\ pc[p] = "webhook"
  /\ LET n == Len(events[p])
         evs == [events[p] EXCEPT ![n].webhook = answer]
     IN  IF sendToWebhook(answer).threw \/ ~config.JSONBIN
         THEN logRoutingEventReturn(p, evs)
         ELSE /\ events' = [events EXCEPT ![p] =
                              [evs EXCEPT ![n].stored = "pending"]]
              /\ pc' = [pc EXCEPT ![p] = "analytics"]
              /\ UNCHANGED <<result, metrics>>
  /\ UNCHANGED <<shared, cache, timers, lead, locations, finalScore, task,
                 nearest, capacity, selected, outcome, geoRequests,
                 capRequests, steps>>

\* the fetch of storeEventData is answered (lines 345-365)
storeEventDataDone(p, answer) ==
  /\ pc[p] = "analytics"
  /\ logRoutingEventReturn(p,
       [events[p] EXCEPT ![Len(events[p])].stored = answer])
  /\ UNCHANGED <<shared, cache, timers, lead, locations, finalScore, task,
                 nearest, capacity, selected, outcome, geoRequests,
                 capRequests, steps>>

DeliveryLeads == {DemoLead, FarLead}
DeliveryLists == { List(<<LocA>>), List(<<LocA, LocB>>) }

InitDelivery ==
  /\ config \in Configs
  /\ load \in { f \in StoreLoads :
                  /\ f["loc_002"] = MAX_DAILY_LEADS_PER_LOCATION
                  /\ f["loc_001"] = MAX_DAILY_LEADS_PER_LOCATION - 1 }
  /\ operational = AllOperational
  /\ Idle
  /\ NoDashboard

\* one routeLead call whose deliveries are answered one by one, or not
NextDelivery ==
  \/ \E ld \in DeliveryLeads, ls \in DeliveryLists, hour \in Hours :
       routeLeadBegin(1, ld, ls, hour) /\ UNCHANGED timed
  \/ \E i \in 1..2 : calculateRealDistanceDone(1, i) /\ UNCHANGED timed
  \/ getNearestLocationsRealReturn(1) /\ UNCHANGED timed
  \/ \E j \in 1..2 : getLocationCapacityRealDone(1, j) /\ UNCHANGED timed
  \/ selectOptimalLocationStep(1) /\ UNCHANGED timed
  \/ logRoutingEventBegin(1) /\ UNCHANGED timed
  \/ \E answer \in Deliveries(TRUE) :
       sendToWebhookDone(1, answer) /\ UNCHANGED timed
  \/ \E answer \in Deliveries(TRUE) :
       storeEventDataDone(1, answer) /\ UNCHANGED timed

SpecDelivery == InitDelivery /\ [][NextDelivery]_vars

\* a delivery of call p's event is in flight
DeliveryInFlight(p) ==
  /\ events[p] # <<>>
  /\ "pending" \in { events[p][Len(events[p])].webhook,
                     events[p][Len(events[p])].stored }

\* C25: emitting the event does not block the call: whenever a delivery of
\* a call's event is in flight, to the webhook or to the analytics bin, the
\* call has returned its result.
C25_EmissionNonBlocking ==
  \A p \in Procs : DeliveryInFlight(p) => result[p].returned


(***************************************************************************)
(* The same call under the scheduling the code can count on: a             *)
(* continuation that can run does run, and a fetch that carries the        *)
(* timeout option (lines 200, 271, 333) is answered or rejected in the     *)
(* end.  The fetch of storeEventData carries no timeout (lines 351-358):   *)
(* nothing makes it end.                                                   *)
(***************************************************************************)
FairDelivery ==
  /\ WF_vars(\E i \in 1..2 : calculateRealDistanceDone(1, i) /\ UNCHANGED timed)
  /\ WF_vars(getNearestLocationsRealReturn(1) /\ UNCHANGED timed)
  /\ WF_vars(\E j \in 1..2 : getLocationCapacityRealDone(1, j)
                               /\ UNCHANGED timed)
  /\ WF_vars(selectOptimalLocationStep(1) /\ UNCHANGED timed)
  /\ WF_vars(logRoutingEventBegin(1) /\ UNCHANGED timed)
  /\ WF_vars(\E answer \in Deliveries(TRUE) :
               sendToWebhookDone(1, answer) /\ UNCHANGED timed)

SpecDeliveryLive == InitDelivery /\ [][NextDelivery]_vars /\ FairDelivery

\* C26: every routeLead call that was made returns in the end, whichever
\* external call stays without an answer.
C26_EveryCallReturns ==
  \A p \in Procs : (pc[p] # "idle") ~> Returned(p)

\* a call waiting for the answer of the analytics bin
C26_WaitingForAnalytics ==
  \E p \in Procs :
    /\ pc[p] = "analytics"
    /\ ~result[p].returned
    /\ events[p][Len(events[p])].stored = "pending"


\* call p has run selectOptimalLocation
SelectionDone(p) ==
  "selectOptimalLocation" \in { steps[p][k] : k \in 1..Len(steps[p]) }

\* call p has gone past the gathering of its distances
DistancesGathered(p) == pc[p] \in {"capacity", "log", "webhook", "analytics"}
                        \/ (pc[p] = "done" /\ Scored(p) /\ ~lead[p].frozen)

Synthesized(p, j) ==
  /\ capacity[p][j].read
  /\ ~config.JSONBIN \/ StoreFailed(p, j)

\* C28: every capacity read that is over has yielded a record, and a record
\* that was synthesized, the store being unconfigured, unreachable or in
\* error, carries a mark that says it is simulated.
C28_SimulatedIsMarked ==
  \A p \in Procs : \A j \in 1..Len(capacity[p]) :
    /\ capacity[p][j].read =>
         {"hasCapacity", "availableSlots", "isOperational"}
           \subseteq DOMAIN capacity[p][j]
    /\ Synthesized(p, j) =>
         /\ "simulated" \in DOMAIN capacity[p][j]
         /\ capacity[p][j].simulated

\* a record synthesized for a router without the key of the bins, with
\* nothing in it but the three fields of a capacity
C28_UnmarkedRecord ==
  \E p \in Procs : \E j \in 1..Len(capacity[p]) :
    /\ ~config.JSONBIN
    /\ Synthesized(p, j)
    /\ capacity[p][j] \in getSimulatedCapacity
    /\ DOMAIN capacity[p][j] =
         {"read", "hasCapacity", "availableSlots", "isOperational"}


\* what a delivery that was sent can have become
Attempted == {"pending", "delivered", "failed", "threw"}

\* C29: once the webhook delivery of an event is over, failed or not, the
\* analytics write has been attempted if the bins are configured; the
\* webhook delivery was attempted if a webhook is configured, whatever
\* becomes of the analytics write; and once both are over, whether they
\* succeeded or failed, the console line is written and the call returns.
C29_BackendsIndependent ==
  \A p \in Procs : \A n \in 1..Len(events[p]) :
    LET ev == events[p][n]
    IN  /\ (config.WEBHOOK_URL /\ ev.webhook # "pending" /\ config.JSONBIN)
             => ev.stored \in Attempted
        /\ config.WEBHOOK_URL => ev.webhook \in Attempted
        /\ ~config.WEBHOOK_URL => ev.webhook = "skipped"
        /\ ~config.JSONBIN => ev.stored = "skipped"
        /\ Returned(p) =>
             /\ ev.console
             /\ "pending" \notin {ev.webhook, ev.stored}

\* an event whose webhook delivery threw or was refused, whose analytics
\* write was made all the same and failed too, and whose console line is
\* written
C29_Witness ==
  \E p \in Procs : \E n \in 1..Len(events[p]) :
    /\ Returned(p)
    /\ events[p][n].webhook \in {"failed", "threw"}
    /\ events[p][n].stored \in {"failed", "threw"}
    /\ events[p][n].console


\* C30: a call never emits more than one event; a call that returned
\* Routed, Failed{OutOfRange} or Failed{NoCapacity} has emitted exactly one,
\* and one that returned Failed{InvalidInput} or Failed{SystemError} none;
\* the outcome of the event is SUCCESS exactly when the result is a success
\* (NO_NEARBY_LOCATIONS for OutOfRange, NO_CAPACITY for NoCapacity); and
\* the event names a selected location exactly when its outcome is SUCCESS,
\* the one the result returns.
C30_OneEventPerDecision ==
  \A p \in Procs :
    /\ Len(events[p]) <= 1
    /\ Returned(p) =>
         /\ ( \/ Routed(result[p])
              \/ Failed(result[p], "OUT_OF_RANGE")
              \/ Failed(result[p], "NO_CAPACITY") ) => Len(events[p]) = 1
         /\ ( \/ Failed(result[p], "INVALID_LEAD")
              \/ Failed(result[p], "SYSTEM_ERROR") ) => events[p] = <<>>
         /\ \A n \in 1..Len(events[p]) :
              LET ev == events[p][n]
              IN  /\ ev.outcome = "SUCCESS" <=> result[p].success
                  /\ ev.outcome = "NO_NEARBY_LOCATIONS"
                       <=> Failed(result[p], "OUT_OF_RANGE")
                  /\ ev.outcome = "NO_CAPACITY"
                       <=> Failed(result[p], "NO_CAPACITY")
                  /\ ev.selectedLocationId # "" <=> ev.outcome = "SUCCESS"
                  /\ ev.outcome = "SUCCESS" =>
                       ev.selectedLocationId = result[p].locationId

\* a Routed call whose event names the selected location, which is not the
\* nearest candidate
C30_Witness ==
  \E p \in Procs :
    /\ Routed(result[p])
    /\ Len(events[p]) = 1
    /\ events[p][1].outcome = "SUCCESS"
    /\ events[p][1].selectedLocationId = result[p].locationId
    /\ nearest[p][1].id # result[p].locationId

====
